---- MODULE Spec2Model ----
(***************************************************************************)
(* Model of the deet debugger's session controller (src/src/debugger.rs):  *)
(* the command loop Debugger::run, its helper Debugger::continue_exec, the *)
(* input loop Debugger::get_next_command and the pure function             *)
(* parse_address.  The Inferior and DwarfData collaborators live in other  *)
(* modules of the crate; their observable behaviour is modelled from the   *)
(* design document.                                                        *)
(***************************************************************************)
EXTENDS Integers, Sequences, FiniteSets, TLC

(***************************************************************************)
(* Bounds of the model.                                                    *)
(***************************************************************************)
\* longest breakpoint specification explored by the parsing specification
MaxLen == 5
\* largest number of entries the breakpoint table is allowed to reach
MaxBreakpoints == 2
\* largest number of inferiors launched in one session
MaxRuns == 2

(***************************************************************************)
(* Machine words.  usize is 64 bits wide on the x86-64 target of the       *)
(* debugger: a word is kept as its 16 hexadecimal nibbles, most            *)
(* significant first, so that the overflow check of the conversion keeps   *)
(* its width.                                                              *)
(***************************************************************************)
WordNibbles == 16

Word == [1..WordNibbles -> 0..15]

ZeroWord == [i \in 1..WordNibbles |-> 0]

\* Option: None is the empty sequence, Some(x) the sequence holding x
None == << >>

Some(x) == <<x>>

\* Option::unwrap
Unwrap(o) == o[1]

(***************************************************************************)
(* Text.  A string is a sequence of one-character strings.                 *)
(***************************************************************************)
\* char::to_lowercase on the characters that occur in the inputs
CharToLower(c) ==
    CASE c = "A" -> "a" [] c = "B" -> "b" [] c = "C" -> "c"
      [] c = "D" -> "d" [] c = "E" -> "e" [] c = "F" -> "f"
      [] c = "X" -> "x" [] c = "Z" -> "z"
      [] OTHER -> c

\* str::to_lowercase
to_lowercase(s) == [i \in 1..Len(s) |-> CharToLower(s[i])]

\* str::starts_with
starts_with(s, p) == Len(s) >= Len(p) /\ SubSeq(s, 1, Len(p)) = p

\* &s[n..]
SliceFrom(s, n) == SubSeq(s, n + 1, Len(s))

\* char::to_digit(16); -1 stands for None
to_digit(c) ==
    CASE c = "0" -> 0 [] c = "1" -> 1 [] c = "2" -> 2 [] c = "3" -> 3
      [] c = "4" -> 4 [] c = "5" -> 5 [] c = "6" -> 6 [] c = "7" -> 7
      [] c = "8" -> 8 [] c = "9" -> 9
      [] c = "a" -> 10 [] c = "A" -> 10 [] c = "b" -> 11 [] c = "B" -> 11
      [] c = "c" -> 12 [] c = "C" -> 12 [] c = "d" -> 13 [] c = "D" -> 13
      [] c = "e" -> 14 [] c = "E" -> 14 [] c = "f" -> 15 [] c = "F" -> 15
      [] OTHER -> -1

\* the accumulation step without the overflow check (wrapping arithmetic)
CheckedMulAddWrapping(w, d) ==
    Some([i \in 1..WordNibbles |-> IF i < WordNibbles THEN w[i + 1] ELSE d])

\* one step of the accumulation result.checked_mul(16)?.checked_add(d)?
\* on a 64-bit word: the multiplication overflows exactly when the top
\* nibble is occupied, the addition of a digit below 16 never does
CheckedMulAdd(w, d) ==
    IF w[1] # 0 THEN None
    ELSE Some([i \in 1..WordNibbles |-> IF i < WordNibbles THEN w[i + 1] ELSE d])

RECURSIVE AccumulateDigits(_, _)
\* the digit loop of from_str_radix: InvalidDigit and PosOverflow both end
\* as None after .ok()
AccumulateDigits(digits, acc) ==
    IF acc = None THEN None
    ELSE IF digits = << >> THEN acc
    ELSE IF to_digit(Head(digits)) = -1 THEN None
    ELSE AccumulateDigits(Tail(digits),
                          CheckedMulAdd(Unwrap(acc), to_digit(Head(digits))))

\* usize::from_str_radix(src, 16).ok(): an empty string and a lone sign are
\* errors, one leading "+" is accepted, "-" is an invalid digit for an
\* unsigned type
from_str_radix(src) ==
    IF src = << >> THEN None
    ELSE IF Len(src) = 1 /\ Head(src) \in {"+", "-"} THEN None
    ELSE IF Head(src) = "+" THEN AccumulateDigits(Tail(src), Some(ZeroWord))
    ELSE AccumulateDigits(src, Some(ZeroWord))

\* parse_address with the "0x" prefix compared without lower-casing
parse_address_case_sensitive(addr) ==
    LET a1 == IF starts_with(to_lowercase(addr), <<"*">>)
              THEN SliceFrom(addr, 1) ELSE addr
        a2 == IF starts_with(a1, <<"0", "x">>)
              THEN SliceFrom(a1, 2) ELSE a1
    IN  from_str_radix(a2)

\* parse_address
parse_address(addr) ==
    LET a1 == IF starts_with(to_lowercase(addr), <<"*">>)
              THEN SliceFrom(addr, 1) ELSE addr
        a2 == IF starts_with(to_lowercase(a1), <<"0", "x">>)
              THEN SliceFrom(a1, 2) ELSE a1
    IN  from_str_radix(a2)


(***************************************************************************)
(* State of the session.                                                   *)
(***************************************************************************)
VARIABLES
    pc,           \* position of Debugger::run: "prompt", "run_launch",
                  \* "run_resume", "done" (returned) or "panicked"
    inferior,     \* Debugger.inferior: 0 is None, a process id is Some
    breakpoints,  \* Debugger.breakpoints
    procs,        \* the operating system's view of every inferior process
    out,          \* what was printed since the last line was read
    lastInput,    \* what the last call of readline produced
    before,       \* the slot and the table when that input was read
    launchArg,    \* the breakpoint argument of the last Inferior::new
    accepted,     \* the addresses of all accepted Breakpoint commands
    input,        \* the text last handed to parse_address
    parsed,       \* what parse_address made of it
    resumes       \* the calls of Inferior::continue_exec made by the
                  \* command last read

vars == <<pc, inferior, breakpoints, procs, out, lastInput, before,
          launchArg, accepted, input, parsed, resumes>>

Pids == 1..MaxRuns

\* a process that was never created
NoProc == [state |-> "none", installed |-> << >>, rip |-> None, moved |-> FALSE]

\* the processes that are alive (created, neither exited nor killed)
Live == {p \in Pids : procs[p].state = "stopped"}

\* the process id the next spawn receives
NextPid == Cardinality({p \in Pids : procs[p].state # "none"}) + 1

Range(s) == {s[i] : i \in 1..Len(s)}

\* the word of a small number (below 16^7)
WordOfNat(n) ==
    [i \in 1..WordNibbles |->
        IF WordNibbles - i <= 6 THEN (n \div (16 ^ (WordNibbles - i))) % 16 ELSE 0]

(***************************************************************************)
(* The collaborators, from the design document.                            *)
(***************************************************************************)
\* DwarfData::get_line_from_addr: the addresses that have a source line
LineAddrs == {WordOfNat(16)}

get_line_from_addr(rip) == IF rip \in LineAddrs THEN Some("line") ELSE None

\* program counters at which a signal other than the trap may stop the child
SignalPcs == {WordOfNat(16), WordOfNat(32)}

\* Inferior::new: the results of a launch
InferiorNew == {"None", "Some"}

\* Inferior::kill on process record p: terminates and reaps a live process,
\* succeeds on one that is already gone, and may fail on a live one
InferiorKill(p) == IF p.state = "stopped" THEN {"Err", "Ok"} ELSE {"Ok"}

\* the debuggee: the addresses of its instructions, the one it starts at,
\* and where control may go after the instruction at a (None: the program
\* ends); any control flow is allowed, loops included
TargetCode == {WordOfNat(16), WordOfNat(32)}

EntryPc == WordOfNat(16)

TargetNext(a) == {None} \cup {Some(b) : b \in TargetCode}

\* the inferior is stopped exactly at the address of an installed breakpoint
AtBreakpoint(p) ==
    p.state = "stopped" /\ p.rip # None /\ Unwrap(p.rip) \in Range(p.installed)

\* the program counter a stopped process resumes at
CurrentPc(p) == IF p.rip = None THEN Some(EntryPc) ELSE p.rip

\* a resume that does not step over the breakpoint it is stopped at
ResumeStartWithoutStepOver(p) == [pcs |-> {CurrentPc(p)}, stepped |-> FALSE]

\* the first part of a resume: stopped at an installed breakpoint, the
\* original byte is restored, exactly one instruction is stepped and the
\* trap is written back; pcs are the program counters free execution may
\* start from
ResumeStart(p) ==
    IF AtBreakpoint(p)
    THEN [pcs |-> TargetNext(Unwrap(p.rip)), stepped |-> TRUE]
    ELSE [pcs |-> {CurrentPc(p)}, stepped |-> FALSE]

RECURSIVE FirstHalts(_, _, _)
\* where free execution from the program counters in frontier first halts:
\* at an installed trap, or at the end of the program (None)
FirstHalts(frontier, seen, installed) ==
    LET fresh == frontier \ seen
        halts == {o \in fresh : o = None \/ Unwrap(o) \in Range(installed)}
        runs  == fresh \ halts
    IN  IF fresh = {} THEN {}
        ELSE halts \cup FirstHalts(UNION {TargetNext(Unwrap(o)) : o \in runs},
                                   seen \cup fresh, installed)

\* Inferior::continue_exec on process record p: the wait event that ends
\* the resume, or an error; a trap stop reports the address of the
\* breakpoint; moved tells whether the resume executed an instruction
InferiorContinueExec(p) ==
    IF p.state # "stopped"
    THEN {[kind |-> "Err", arg |-> "ESRCH", rip |-> None, moved |-> FALSE]}
    ELSE LET start == ResumeStart(p)
             halts == FirstHalts(start.pcs, {}, p.installed)
         IN  {[kind |-> "Err", arg |-> "EIO", rip |-> None, moved |-> FALSE]}
             \cup {[kind |-> "Exited", arg |-> c, rip |-> None, moved |-> TRUE] :
                      c \in {"0", "1"}}
             \cup {[kind |-> "Signaled", arg |-> "SIGKILL", rip |-> None, moved |-> TRUE]}
             \cup {[kind |-> "Stopped", arg |-> "SIGTRAP", rip |-> h,
                     moved |-> start.stepped \/ h \notin start.pcs] :
                      h \in halts \ {None}}
             \cup UNION {{[kind |-> "Stopped", arg |-> "SIGSEGV", rip |-> Some(a),
                            moved |-> m] :
                              m \in IF Some(a) = CurrentPc(p)
                                    THEN {FALSE, TRUE} ELSE {TRUE}} :
                          a \in SignalPcs}

\* Inferior::print_backtrace on process record p
InferiorPrintBacktrace(p) ==
    IF p.state = "stopped" THEN {"Err", "Ok"} ELSE {"Err"}

\* the process table after the wait event of a resume of process i; the
\* patched memory of a process is gone with the process
ProcsAfter(i, status) ==
    CASE status.kind = "Exited"   -> [procs EXCEPT ![i] = [state |-> "exited", installed |-> << >>, rip |-> None, moved |-> FALSE]]
      [] status.kind = "Signaled" -> [procs EXCEPT ![i] = [state |-> "signaled", installed |-> << >>, rip |-> None, moved |-> FALSE]]
      [] status.kind = "Stopped"  -> [procs EXCEPT ![i].rip = status.rip,
                                                    ![i].moved = status.moved]
      [] OTHER -> procs


(***************************************************************************)
(* Output.  A printed line is its format string with its arguments.        *)
(***************************************************************************)
Line(m, a) == [msg |-> m, arg |-> a, index |-> -1, addr |-> None]

MsgErrorStarting == "Error starting subprocess"
MsgNoInferior == "There is no inferior running"
MsgSetBreakpoint == "Set breakpoint {} at {}"
MsgParseFail == "fail to parse a usize from a hexadecimal string"
MsgExited == "Child exited (status {})"
MsgSignaled == "Child exited (signal {})"
MsgStopped == "Child stopped (signal {})"
MsgStoppedAt == "Stopped at {}"
MsgCantWake == "Inferior can't be woken up and execute: {}"
MsgContinueNoInferior == "inferior_continue_exec failed: there is no inferior"
MsgBacktrace == "backtrace"
MsgTypeQuit == "Type quit to exit"
MsgUnrecognized == "Unrecognized command."
PanicKill == "panicked: inferior.kill wasn't running"
PanicBacktrace == "panicked: called Result::unwrap() on an Err value"
PanicIo == "panicked: Unexpected I/O error"

Printed(m) == \E i \in 1..Len(out) : out[i].msg = m

(***************************************************************************)
(* Debugger::new                                                           *)
(***************************************************************************)
Snapshot == [inferior |-> inferior,
             live |-> inferior # 0 /\ procs[inferior].state = "stopped",
             breakpoints |-> breakpoints]

Init ==
    /\ pc = "prompt"
    /\ inferior = 0
    /\ breakpoints = << >>
    /\ procs = [p \in Pids |-> NoProc]
    /\ out = << >>
    /\ lastInput = "none"
    /\ before = [inferior |-> 0, live |-> FALSE, breakpoints |-> << >>]
    /\ launchArg = None
    /\ accepted = << >>
    /\ input = << >>
    /\ parsed = None
    /\ resumes = 0

(***************************************************************************)
(* Debugger::continue_exec                                                 *)
(***************************************************************************)
\* the report, had the Stopped arm never looked the line up
ReportOfWithoutLine(status) ==
    CASE status.kind = "Exited"   -> <<Line(MsgExited, status.arg)>>
      [] status.kind = "Signaled" -> <<Line(MsgSignaled, status.arg)>>
      [] status.kind = "Stopped"  -> <<Line(MsgStopped, status.arg)>>
      [] OTHER -> <<Line(MsgCantWake, status.arg)>>

\* what the match on the resume's result prints
ReportOf(status) ==
    CASE status.kind = "Exited"   -> <<Line(MsgExited, status.arg)>>
      [] status.kind = "Signaled" -> <<Line(MsgSignaled, status.arg)>>
      [] status.kind = "Stopped"  ->
            <<Line(MsgStopped, status.arg)>>
            \o (IF get_line_from_addr(Unwrap(status.rip)) # None
                THEN <<Line(MsgStoppedAt, Unwrap(get_line_from_addr(Unwrap(status.rip))))>>
                ELSE << >>)
      [] OTHER -> <<Line(MsgCantWake, status.arg)>>

\* the slot kept whatever the resume reports
SlotAfterKeepsSignaled(status) ==
    IF status.kind = "Exited" THEN 0 ELSE inferior

\* the slot, had the Err arm dropped the inferior as well
SlotAfterDropsOnErr(status) ==
    IF status.kind \in {"Exited", "Signaled", "Err"} THEN 0 ELSE inferior

\* self.inferior after the match on the resume's result
SlotAfter(status) ==
    IF status.kind \in {"Exited", "Signaled"} THEN 0 ELSE inferior

\* continue_exec, called when the command has printed `printed` and has made
\* `calls` calls of Inferior::continue_exec so far
continue_exec(printed, calls) ==
    IF inferior # 0
    THEN \E status \in InferiorContinueExec(procs[inferior]) :
            /\ procs' = ProcsAfter(inferior, status)
            /\ inferior' = SlotAfter(status)
            /\ out' = printed \o ReportOf(status)
            /\ resumes' = calls + 1
    ELSE /\ out' = printed \o <<Line(MsgContinueNoInferior, "")>>
         /\ resumes' = calls
         /\ UNCHANGED <<inferior, procs>>


(***************************************************************************)
(* Debugger::run, one action per arm of the match; the Run arm is three    *)
(* consecutive steps (kill, launch, resume).                               *)
(***************************************************************************)
\* the process table once Inferior::kill has succeeded on process i
ProcsKilled(i) ==
    IF procs[i].state = "stopped"
    THEN [procs EXCEPT ![i] = [state |-> "killed", installed |-> << >>, rip |-> None, moved |-> FALSE]]
    ELSE procs

\* the Run arm launching without killing the inferior it holds
CmdRunWithoutKill ==
    /\ pc = "prompt"
    /\ NextPid <= MaxRuns
    /\ lastInput' = "Run"
    /\ before' = Snapshot
    /\ pc' = "run_launch"
    /\ out' = << >>
    /\ resumes' = 0
    /\ UNCHANGED <<procs, inferior, breakpoints, launchArg, accepted, input, parsed>>

\* DebuggerCommand::Run, first step: kill the inferior the slot holds
CmdRun ==
    /\ pc = "prompt"
    /\ NextPid <= MaxRuns
    /\ lastInput' = "Run"
    /\ before' = Snapshot
    /\ resumes' = 0
    /\ IF inferior # 0
       THEN \E r \in InferiorKill(procs[inferior]) :
               IF r = "Ok"
               THEN /\ procs' = ProcsKilled(inferior)
                    /\ pc' = "run_launch"
                    /\ out' = << >>
               ELSE /\ pc' = "panicked"
                    /\ out' = <<Line(PanicKill, "")>>
                    /\ UNCHANGED procs
       ELSE /\ pc' = "run_launch"
            /\ out' = << >>
            /\ UNCHANGED procs
    /\ UNCHANGED <<inferior, breakpoints, launchArg, accepted, input, parsed>>

\* the breakpoints handed to Inferior::new, had the call dropped the newest
LaunchBreakpointsStale ==
    IF breakpoints = << >> THEN << >>
    ELSE SubSeq(breakpoints, 1, Len(breakpoints) - 1)

\* the breakpoints handed to Inferior::new
LaunchBreakpoints == breakpoints

\* DebuggerCommand::Run, second step: Inferior::new
RunLaunch ==
    /\ pc = "run_launch"
    /\ launchArg' = Some(LaunchBreakpoints)
    /\ \E r \in InferiorNew :
          IF r = "Some"
          THEN /\ procs' = [procs EXCEPT ![NextPid] =
                               [state |-> "stopped",
                                installed |-> LaunchBreakpoints,
                                rip |-> None,
                                moved |-> FALSE]]
               /\ inferior' = NextPid
               /\ pc' = "run_resume"
               /\ UNCHANGED out
          ELSE /\ out' = out \o <<Line(MsgErrorStarting, "")>>
               /\ pc' = "prompt"
               /\ UNCHANGED <<procs, inferior>>
    /\ UNCHANGED <<breakpoints, lastInput, before, accepted, input, parsed, resumes>>

\* DebuggerCommand::Run, third step: self.continue_exec()
RunResume ==
    /\ pc = "run_resume"
    /\ continue_exec(out, resumes)
    /\ pc' = "prompt"
    /\ UNCHANGED <<breakpoints, lastInput, before, launchArg, accepted, input, parsed>>

\* the Continue arm calling continue_exec whatever the slot holds
CmdContinueUnguarded ==
    /\ pc = "prompt"
    /\ lastInput' = "Continue"
    /\ before' = Snapshot
    /\ continue_exec(<< >>, 0)
    /\ UNCHANGED <<pc, breakpoints, launchArg, accepted, input, parsed>>

\* DebuggerCommand::Continue
CmdContinue ==
    /\ pc = "prompt"
    /\ lastInput' = "Continue"
    /\ before' = Snapshot
    /\ IF inferior # 0
       THEN continue_exec(<< >>, 0)
       ELSE /\ out' = <<Line(MsgNoInferior, "")>>
            /\ resumes' = 0
            /\ UNCHANGED <<inferior, procs>>
    /\ UNCHANGED <<pc, breakpoints, launchArg, accepted, input, parsed>>

\* DebuggerCommand::Backtrace
CmdBacktrace ==
    /\ pc = "prompt"
    /\ lastInput' = "Backtrace"
    /\ before' = Snapshot
    /\ resumes' = 0
    /\ IF inferior # 0
       THEN \E r \in InferiorPrintBacktrace(procs[inferior]) :
               IF r = "Ok"
               THEN /\ out' = <<Line(MsgBacktrace, "")>>
                    /\ pc' = pc
               ELSE /\ out' = <<Line(PanicBacktrace, "")>>
                    /\ pc' = "panicked"
       ELSE /\ out' = << >>
            /\ pc' = pc
    /\ UNCHANGED <<inferior, breakpoints, procs, launchArg, accepted, input, parsed>>

\* the Quit arm, reached by the command (how = "Quit") or by the end of the
\* input (how = "Eof")
Quit(how) ==
    /\ pc = "prompt"
    /\ lastInput' = how
    /\ before' = Snapshot
    /\ resumes' = 0
    /\ IF inferior # 0
       THEN \E r \in InferiorKill(procs[inferior]) :
               IF r = "Ok"
               THEN /\ procs' = ProcsKilled(inferior)
                    /\ pc' = "done"
                    /\ out' = << >>
               ELSE /\ pc' = "panicked"
                    /\ out' = <<Line(PanicKill, "")>>
                    /\ UNCHANGED procs
       ELSE /\ pc' = "done"
            /\ out' = << >>
            /\ UNCHANGED procs
    /\ UNCHANGED <<inferior, breakpoints, launchArg, accepted, input, parsed>>

\* DebuggerCommand::Quit
CmdQuit == Quit("Quit")

\* the table after the match, had the None arm pushed a default address
TableAfterPushDefault(r) ==
    IF r # None THEN Append(breakpoints, Unwrap(r))
    ELSE Append(breakpoints, ZeroWord)

\* the table after the match, had the Some arm replaced the table by the
\* new address
TableAfterReplace(r) ==
    IF r # None THEN <<Unwrap(r)>> ELSE breakpoints

\* self.breakpoints after the match on parse_address's result r
TableAfter(r) ==
    IF r # None THEN Append(breakpoints, Unwrap(r)) ELSE breakpoints

\* the process table, had the Some arm patched the live inferior as well
ProcsAfterBreakpointInstalling(r) ==
    IF r # None /\ inferior # 0
    THEN [procs EXCEPT ![inferior].installed = Append(@, Unwrap(r))]
    ELSE procs

\* the process table after the match on parse_address's result r: the arm
\* touches no inferior
ProcsAfterBreakpoint(r) == procs

\* what the match would print, had the index been read after the push
BreakpointReportAfterPush(r) ==
    IF r # None
    THEN <<[msg |-> MsgSetBreakpoint, arg |-> "",
            index |-> Len(breakpoints) + 1, addr |-> r]>>
    ELSE <<Line(MsgParseFail, "")>>

\* what the match on parse_address's result r prints
BreakpointReport(r) ==
    IF r # None
    THEN <<[msg |-> MsgSetBreakpoint, arg |-> "",
            index |-> Len(breakpoints), addr |-> r]>>
    ELSE <<Line(MsgParseFail, "")>>

\* DebuggerCommand::Breakpoint(spec)
CmdBreakpoint(spec) ==
    /\ pc = "prompt"
    /\ parse_address(spec) # None => Len(breakpoints) < MaxBreakpoints
    /\ lastInput' = "Breakpoint"
    /\ before' = Snapshot
    /\ resumes' = 0
    /\ input' = spec
    /\ parsed' = parse_address(spec)
    /\ out' = BreakpointReport(parse_address(spec))
    /\ breakpoints' = TableAfter(parse_address(spec))
    /\ procs' = ProcsAfterBreakpoint(parse_address(spec))
    /\ accepted' = IF parse_address(spec) # None
                   THEN Append(accepted, Unwrap(parse_address(spec)))
                   ELSE accepted
    /\ UNCHANGED <<pc, inferior, launchArg>>

(***************************************************************************)
(* Debugger::get_next_command: the inputs that are not one of the verbs.   *)
(***************************************************************************)
\* the arms of get_next_command that loop: an interrupt, a blank line, a
\* line that DebuggerCommand::from_tokens does not recognise
ReadAgain(what, printed) ==
    /\ pc = "prompt"
    /\ lastInput' = what
    /\ before' = Snapshot
    /\ resumes' = 0
    /\ out' = printed
    /\ UNCHANGED <<pc, inferior, breakpoints, procs, launchArg, accepted, input, parsed>>

\* the Interrupted arm, had it returned DebuggerCommand::Quit as the Eof arm
\* does
ReadInterruptedAsQuit == Quit("Interrupted")

ReadInterrupted == ReadAgain("Interrupted", <<Line(MsgTypeQuit, "")>>)

ReadBlank == ReadAgain("Blank", << >>)

ReadUnrecognized == ReadAgain("Unrecognized", <<Line(MsgUnrecognized, "")>>)

\* ReadlineError::Eof: returns DebuggerCommand::Quit
ReadEof == Quit("Eof")

\* any other ReadlineError: panic!
ReadIoError ==
    /\ pc = "prompt"
    /\ lastInput' = "IoError"
    /\ before' = Snapshot
    /\ resumes' = 0
    /\ out' = <<Line(PanicIo, "")>>
    /\ pc' = "panicked"
    /\ UNCHANGED <<inferior, breakpoints, procs, launchArg, accepted, input, parsed>>

(***************************************************************************)
(* The session.                                                            *)
(***************************************************************************)
\* the breakpoint specifications typed in the session
BreakSpecs ==
    { <<"*">>,
      <<"1", "0">>,
      <<"z", "z">>,
      <<"+", "2", "0">>,
      <<"0", "X", "2", "0">>,
      <<"*", "0", "x", "1", "0">> }

Next ==
    \/ CmdRun
    \/ RunLaunch
    \/ RunResume
    \/ CmdContinue
    \/ CmdBacktrace
    \/ CmdQuit
    \/ \E spec \in BreakSpecs : CmdBreakpoint(spec)
    \/ ReadInterrupted
    \/ ReadBlank
    \/ ReadUnrecognized
    \/ ReadEof
    \/ ReadIoError

Spec == Init /\ [][Next]_vars


(***************************************************************************)
(* parse_address on its own: every text up to MaxLen characters is parsed. *)
(***************************************************************************)
\* the characters of the texts
ParseChars == {"*", "+", "-", "0", "F", "X", "a", "x", "z"}

Texts == UNION {[1..n -> ParseChars] : n \in 0..MaxLen}

\* texts around the width of the machine word: the largest word, the
\* smallest number that does not fit, with and without a prefix, and a text
\* that is longer than the word but fits because of a leading zero
MaxWordText == [i \in 1..WordNibbles |-> "F"]

OverflowText == [i \in 1..(WordNibbles + 1) |-> IF i = 1 THEN "1" ELSE "0"]

LongTexts ==
    { MaxWordText,
      OverflowText,
      <<"0">> \o MaxWordText,
      <<"0", "x">> \o OverflowText,
      <<"*", "0", "X">> \o MaxWordText }

InitParse ==
    /\ pc = "parse"
    /\ input \in Texts \cup LongTexts
    /\ parsed = None
    /\ inferior = 0
    /\ breakpoints = << >>
    /\ procs = [p \in Pids |-> NoProc]
    /\ out = << >>
    /\ lastInput = "none"
    /\ before = [inferior |-> 0, live |-> FALSE, breakpoints |-> << >>]
    /\ launchArg = None
    /\ accepted = << >>
    /\ resumes = 0

ParseStep ==
    /\ pc = "parse"
    /\ parsed' = parse_address(input)
    /\ pc' = "parsed"
    /\ UNCHANGED <<inferior, breakpoints, procs, out, lastInput, before,
                   launchArg, accepted, input, resumes>>

NextParse == ParseStep

SpecParse == InitParse /\ [][NextParse]_vars

(***************************************************************************)
(* Properties.                                                             *)
(***************************************************************************)
\* the last command was a Run that has come back to the prompt
RunReturned == pc = "prompt" /\ lastInput = "Run"

\* the last command was a Breakpoint command
BreakpointReturned == pc = "prompt" /\ lastInput = "Breakpoint"

IsPrefix(s, t) == Len(s) <= Len(t) /\ SubSeq(t, 1, Len(s)) = s

\* C1, as stated: after a Run issued while an inferior was alive, exactly
\* one live inferior exists.
C1_ExactlyOneLiveAfterRun ==
    (RunReturned /\ before.live) => Cardinality(Live) = 1

\* C1, amended: at no point do two live inferiors exist; a Run issued while
\* an inferior is alive launches the new one only after the prior one is
\* killed and reaped; afterwards at most one inferior is alive, exactly one
\* (the new one) when the resume reports a stop.
C1_AtMostOneLive ==
    /\ Cardinality(Live) <= 1
    /\ pc = "run_launch" => Live = {}
    /\ (lastInput = "Run" /\ before.live /\ pc \in {"run_launch", "run_resume", "prompt"})
          => /\ procs[before.inferior].state = "killed"
             /\ Live \subseteq ({inferior} \ {before.inferior})
    /\ (RunReturned /\ Printed(MsgStopped)) => Live = {inferior}

C1_Witness ==
    /\ RunReturned
    /\ before.live
    /\ procs[before.inferior].state = "killed"
    /\ inferior # before.inferior
    /\ Live = {inferior}

\* C2: no two entries of the breakpoint table share the same address.
C2_NoDuplicateAddresses ==
    \A i, j \in 1..Len(breakpoints) : i # j => breakpoints[i] # breakpoints[j]

\* C3: the failure of an inferior-side operation (kill, backtrace, resume,
\* launch) never ends the command loop; it ends only through Quit or the end
\* of the input.
C3_InferiorFailureNeverEndsLoop ==
    /\ pc = "panicked" => lastInput = "IoError"
    /\ pc = "done" => lastInput \in {"Quit", "Eof"}

\* C4, as stated: an accepted Breakpoint command issued while an inferior is
\* live appends the address to the table and installs it into that inferior.
C4_InstalledIntoLiveInferior ==
    (BreakpointReturned /\ parsed # None /\ before.live)
        => /\ breakpoints = Append(before.breakpoints, Unwrap(parsed))
           /\ Unwrap(parsed) \in Range(procs[inferior].installed)

\* C4, amended: an accepted Breakpoint command issued while an inferior is
\* live appends the address to the table and leaves the inferior untouched;
\* the breakpoints installed in a live inferior are those of the table at its
\* launch, so the address takes effect at the next Run.
C4_TableOnlyUntilNextRun ==
    /\ [][(pc = "prompt" /\ lastInput' = "Breakpoint" /\ parsed' # None
             /\ inferior # 0 /\ procs[inferior].state = "stopped")
          => /\ breakpoints' = Append(breakpoints, Unwrap(parsed'))
             /\ procs' = procs
             /\ inferior' = inferior]_vars
    /\ [](\A p \in Live : IsPrefix(procs[p].installed, breakpoints))

C4_Witness ==
    /\ BreakpointReturned
    /\ parsed # None
    /\ before.live
    /\ inferior \in Live
    /\ Unwrap(parsed) \notin Range(procs[inferior].installed)
    /\ breakpoints = Append(before.breakpoints, Unwrap(parsed))

\* C5: after a Run whose launch fails, the controller holds no inferior,
\* whether or not one existed before the Run.
C5_NoInferiorAfterFailedLaunch ==
    (RunReturned /\ Printed(MsgErrorStarting)) => inferior = 0

\* a resume has just reported that the inferior exited or was killed by a
\* signal
ExitReported ==
    /\ pc = "prompt"
    /\ lastInput \in {"Run", "Continue"}
    /\ Printed(MsgExited) \/ Printed(MsgSignaled)

\* C6: when a resume reports that the inferior exited or was killed by a
\* signal, the outcome is printed and the slot is empty at the prompt; a
\* Continue issued next reports that no inferior is running.
C6_ExitClearsSlot ==
    /\ [](ExitReported => inferior = 0)
    /\ [](pc = "prompt" /\ inferior # 0
             => procs[inferior].state \notin {"exited", "signaled"})
    /\ [][\A p \in Pids :
             (procs[p].state = "stopped" /\ procs'[p].state \in {"exited", "signaled"})
                => /\ inferior = p
                   /\ inferior' = 0
                   /\ pc' = "prompt"
                   /\ out'[Len(out')].msg =
                         (IF procs'[p].state = "exited" THEN MsgExited ELSE MsgSignaled)]_vars
    /\ [][(ExitReported /\ lastInput' = "Continue")
             => /\ out' = <<Line(MsgNoInferior, "")>>
                /\ inferior' = 0
                /\ procs' = procs]_vars

C6_Witness ==
    /\ pc = "prompt"
    /\ lastInput = "Continue"
    /\ Printed(MsgSignaled)
    /\ before.live
    /\ procs[before.inferior].state = "signaled"
    /\ inferior = 0

\* C7: when Quit (or the end of the input) arrives while an inferior exists,
\* the inferior is killed before the command loop ends, and no command is
\* processed after Quit.
C7_QuitKillsFirst ==
    /\ (pc \in {"done", "panicked"} /\ lastInput \in {"Quit", "Eof"} /\ before.inferior # 0)
          => procs[before.inferior].state # "stopped"
    /\ pc = "done" => (lastInput \in {"Quit", "Eof"} /\ ~ENABLED Next)

\* C8: a Breakpoint command whose specification does not parse is rejected
\* with a message, leaves the table and the slot as they were, and the loop
\* goes on.
C8_ParseFailureRejected ==
    (lastInput = "Breakpoint" /\ parsed = None)
        => /\ pc = "prompt"
           /\ out = <<Line(MsgParseFail, "")>>
           /\ breakpoints = before.breakpoints
           /\ inferior = before.inferior
           /\ accepted = breakpoints

C8_Witness ==
    /\ BreakpointReturned
    /\ input = <<"z", "z">>
    /\ parsed = None
    /\ breakpoints # << >>
    /\ inferior \in Live

HexChars == <<"0", "1", "2", "3", "4", "5", "6", "7", "8", "9",
              "a", "b", "c", "d", "e", "f">>

IsHexDigit(c) == \E i \in 1..16 : HexChars[i] = CharToLower(c)

IsHexText(s) == s # << >> /\ \A i \in 1..Len(s) : IsHexDigit(s[i])

HexDigitValue(c) == (CHOOSE i \in 1..16 : HexChars[i] = CharToLower(c)) - 1

RECURSIVE LeadingZeros(_)
LeadingZeros(s) ==
    IF s = << >> \/ s[1] # "0" THEN 0 ELSE 1 + LeadingZeros(Tail(s))

\* a text of hexadecimal digits whose value fits the machine word
FitsWord(s) == Len(s) - LeadingZeros(s) <= WordNibbles

\* the base-16 value, as a machine word, of a text of hexadecimal digits
\* that fits the word
HexValue(s) ==
    LET sig == SubSeq(s, LeadingZeros(s) + 1, Len(s))
        pad == WordNibbles - Len(sig)
    IN  [i \in 1..WordNibbles |-> IF i <= pad THEN 0 ELSE HexDigitValue(sig[i - pad])]

\* the prefixes a breakpoint specification may carry
AddressPrefixes ==
    { << >>, <<"*">>, <<"0", "X">>, <<"0", "x">>, <<"*", "0", "X">>, <<"*", "0", "x">> }

\* C9: for every non-empty text H of hexadecimal digits that fits a machine
\* word, parse_address of
\* "*0x"+H, "*0X"+H, "*"+H, "0x"+H, "0X"+H and H is the base-16 value of H.
C9_EquivalentForms ==
    pc = "parsed" =>
        \A pre \in AddressPrefixes :
            (/\ IsPrefix(pre, input)
             /\ IsHexText(SliceFrom(input, Len(pre)))
             /\ FitsWord(SliceFrom(input, Len(pre))))
                => parsed = Some(HexValue(SliceFrom(input, Len(pre))))

C9_Witness ==
    /\ pc = "parsed"
    /\ input = <<"*", "0", "X", "F", "a">>
    /\ parsed = Some(WordOfNat(250))

\* C10: every Run hands Inferior::new exactly the addresses of all accepted
\* Breakpoint commands since the start, in insertion order, and a launched
\* inferior has exactly those installed.
C10_LaunchGetsAllBreakpoints ==
    /\ (lastInput = "Run" /\ pc \in {"run_resume", "prompt"})
          => launchArg = Some(accepted)
    /\ pc = "run_resume" => procs[inferior].installed = accepted

C10_Witness ==
    /\ RunReturned
    /\ before.live
    /\ procs[before.inferior].state = "killed"
    /\ Len(accepted) >= 2
    /\ launchArg = Some(accepted)
    /\ inferior \in Live
    /\ procs[inferior].installed = accepted

\* C11: Continue with no inferior reports that no inferior is running,
\* performs no resume and leaves the slot, the processes and the table as
\* they were; with an inferior in the slot it resumes that inferior exactly
\* once.
C11_ContinueNoInferiorIsNoop ==
    /\ [][(pc = "prompt" /\ lastInput' = "Continue" /\ inferior = 0)
             => /\ out' = <<Line(MsgNoInferior, "")>>
                /\ resumes' = 0
                /\ inferior' = 0
                /\ procs' = procs
                /\ breakpoints' = breakpoints
                /\ pc' = "prompt"]_vars
    /\ [][(pc = "prompt" /\ lastInput' = "Continue" /\ inferior # 0)
             => /\ resumes' = 1
                /\ \A p \in Pids \ {inferior} : procs'[p] = procs[p]
                /\ out' # <<Line(MsgNoInferior, "")>>
                /\ breakpoints' = breakpoints
                /\ pc' = "prompt"]_vars

C11_Witness ==
    /\ pc = "prompt"
    /\ lastInput = "Continue"
    /\ before.inferior = 0
    /\ inferior = 0
    /\ out = <<Line(MsgNoInferior, "")>>
    /\ resumes = 0
    /\ breakpoints # << >>
    /\ \E p \in Pids : procs[p].state = "exited"

\* the value of a word below 16^4
LowNat(w) ==
    w[WordNibbles] + 16 * w[WordNibbles - 1] + 256 * w[WordNibbles - 2]
        + 4096 * w[WordNibbles - 3]

\* another installed breakpoint lies immediately after the one at a
AdjacentBreakpoint(a, installed) ==
    \E b \in Range(installed) : LowNat(b) = LowNat(a) + 1

\* a Continue step taken while the inferior is stopped at an installed
\* breakpoint and answered by a trap stop
ContinueFromBreakpointTraps ==
    /\ pc = "prompt"
    /\ lastInput' = "Continue"
    /\ inferior # 0
    /\ AtBreakpoint(procs[inferior])
    /\ inferior' = inferior
    /\ out' # << >>
    /\ out'[1] = Line(MsgStopped, "SIGTRAP")

C13_TableAppendOnly ==
    [][/\ IsPrefix(breakpoints, breakpoints')
       /\ breakpoints' # breakpoints
             => /\ pc = "prompt"
                /\ lastInput' = "Breakpoint"
                /\ parsed' # None
                /\ breakpoints' = Append(breakpoints, Unwrap(parsed'))
       /\ (pc = "prompt" /\ lastInput' = "Breakpoint" /\ parsed' # None)
             => Len(breakpoints') = Len(breakpoints) + 1]_vars

C13_Witness ==
    /\ BreakpointReturned
    /\ parsed # None
    /\ before.breakpoints # << >>
    /\ breakpoints = Append(before.breakpoints, Unwrap(parsed))
    /\ launchArg # None
    /\ \E p \in Pids : procs[p].state = "exited"

\* a step in which the resume of the inferior returns an error
ResumeFails ==
    /\ pc = "run_resume" \/ (pc = "prompt" /\ lastInput' = "Continue")
    /\ resumes' = 1
    /\ out' # << >>
    /\ out'[Len(out')].msg = MsgCantWake

\* C14: when the inferior's continue returns an error, the error is
\* reported, the same inferior stays in the slot, and neither the processes
\* nor the breakpoint table change.
C14_ResumeFailureKeepsSlot ==
    /\ [][ResumeFails
             => /\ inferior # 0
                /\ inferior' = inferior
                /\ procs' = procs
                /\ breakpoints' = breakpoints
                /\ pc' = "prompt"]_vars
    /\ []((pc = "prompt" /\ lastInput = "Continue" /\ Printed(MsgCantWake))
             => /\ inferior = before.inferior
                /\ inferior # 0
                /\ breakpoints = before.breakpoints
                /\ out = <<Line(MsgCantWake, out[1].arg)>>)

C14_Witness ==
    /\ pc = "prompt"
    /\ lastInput = "Continue"
    /\ Printed(MsgCantWake)
    /\ before.live
    /\ inferior = before.inferior
    /\ inferior \in Live
    /\ breakpoints # << >>

\* a resume has just reported a stop
StopReported ==
    /\ pc = "prompt"
    /\ lastInput \in {"Run", "Continue"}
    /\ Printed(MsgStopped)

\* C15: on every Stopped result the controller reports the signal, prints
\* the source line exactly when one is known for the reported program
\* counter, and keeps the inferior in the slot, so that a following Continue
\* or Backtrace acts on it.
C15_StopReportedAndKept ==
    /\ [](StopReported
             => /\ inferior \in Live
                /\ lastInput = "Continue" => inferior = before.inferior
                /\ procs[inferior].rip # None
                /\ out[1].msg = MsgStopped
                /\ out[1].arg \in {"SIGTRAP", "SIGSEGV"}
                /\ IF Unwrap(procs[inferior].rip) \in LineAddrs
                   THEN Len(out) = 2 /\ out[2].msg = MsgStoppedAt
                   ELSE Len(out) = 1)
    /\ [][(/\ pc = "run_resume" \/ (pc = "prompt" /\ lastInput' = "Continue")
           /\ resumes' = 1
           /\ inferior' # 0
           /\ out'[Len(out')].msg # MsgCantWake)
             => (StopReported)']_vars
    /\ [][(StopReported /\ lastInput' = "Continue")
             => /\ resumes' = 1
                /\ \A p \in Pids \ {inferior} : procs'[p] = procs[p]]_vars
    /\ [][(StopReported /\ lastInput' = "Backtrace")
             => /\ out' # << >>
                /\ inferior' = inferior]_vars

C15_Witness ==
    /\ StopReported
    /\ lastInput = "Continue"
    /\ inferior = before.inferior
    /\ out = <<Line(MsgStopped, "SIGTRAP"), Line(MsgStoppedAt, "line")>>
    /\ Unwrap(procs[inferior].rip) \in LineAddrs

\* the text left after removing at most one leading "*" and then at most
\* one leading "0x" or "0X"
Remainder(s) ==
    LET t == IF s # << >> /\ s[1] = "*" THEN Tail(s) ELSE s
    IN  IF Len(t) >= 2 /\ t[1] = "0" /\ t[2] \in {"X", "x"}
        THEN SubSeq(t, 3, Len(t)) ELSE t

\* the text without one leading "+"
WithoutPlus(s) == IF s # << >> /\ s[1] = "+" THEN Tail(s) ELSE s

\* C16, as stated: parse_address yields no value whenever the remainder is
\* not a non-empty text of hexadecimal digits, and whenever the value does
\* not fit the machine word.
C16_NoValueUnlessHexRemainder ==
    (pc = "parsed" /\ ~(IsHexText(Remainder(input)) /\ FitsWord(Remainder(input))))
        => parsed = None

\* C16, amended: parse_address yields no value whenever the remainder,
\* after removing at most one leading "+", is not a non-empty text of
\* hexadecimal digits, and whenever the value does not fit the machine word;
\* in every other case (among them "+10") it yields an address.
C16_NoValueUnlessSignedHexRemainder ==
    pc = "parsed" =>
        (parsed = None <=>
            ~(/\ IsHexText(WithoutPlus(Remainder(input)))
              /\ FitsWord(WithoutPlus(Remainder(input)))))

C16_Witness ==
    /\ pc = "parsed"
    /\ input = <<"0", "x">> \o OverflowText
    /\ parsed = None

\* C17: an accepted Breakpoint command reports the number of breakpoints
\* that were in the table before it, which is also the number of Breakpoint
\* commands accepted before it (so the indices are 0, 1, 2, ... and never
\* repeat), and the table's entry at the reported index is the address just
\* added.
C17_IndexIsInsertionOrder ==
    (BreakpointReturned /\ parsed # None)
        => /\ Len(out) = 1
           /\ out[1].msg = MsgSetBreakpoint
           /\ out[1].index = Len(before.breakpoints)
           /\ out[1].index = Len(accepted) - 1
           /\ out[1].index = Len(breakpoints) - 1
           /\ out[1].addr = parsed
           /\ breakpoints[out[1].index + 1] = Unwrap(parsed)

C17_Witness ==
    /\ BreakpointReturned
    /\ parsed # None
    /\ out[1].index = 1
    /\ breakpoints[2] = Unwrap(parsed)

\* C18: after a Backtrace command the loop is back at the prompt, the
\* inferior slot and the breakpoint table are what they were before it, and
\* with no inferior nothing was printed.
C18_BacktraceChangesNothing ==
    lastInput = "Backtrace"
        => /\ pc = "prompt"
           /\ inferior = before.inferior
           /\ breakpoints = before.breakpoints
           /\ before.inferior = 0 => out = << >>

\* C19: at every prompt, an occupied inferior slot holds a process that is
\* alive and stopped.
C19_SlotHoldsStoppedInferior ==
    (pc = "prompt" /\ inferior # 0) => procs[inferior].state = "stopped"

\* the inputs that are not a command
NotACommand == {"Blank", "Interrupted", "Unrecognized"}

\* C20: a blank line, an unrecognized line and an interrupt leave the
\* inferior slot, the breakpoint table and every process unchanged, resume
\* nothing, print only their own message (none for a blank line) and
\* re-prompt; the loop ends only on Quit or on the end of the input, and the
\* end of the input always leaves the prompt as Quit does.
C20_NonCommandsChangeNothing ==
    /\ [][(pc = "prompt" /\ lastInput' \in NotACommand)
             => /\ pc' = "prompt"
                /\ inferior' = inferior
                /\ breakpoints' = breakpoints
                /\ procs' = procs
                /\ launchArg' = launchArg
                /\ resumes' = 0
                /\ out' = CASE lastInput' = "Blank" -> << >>
                             [] lastInput' = "Interrupted" -> <<Line(MsgTypeQuit, "")>>
                             [] lastInput' = "Unrecognized" -> <<Line(MsgUnrecognized, "")>>]_vars
    /\ [](pc = "done" => lastInput \in {"Eof", "Quit"})
    /\ [](lastInput = "Eof" => pc \in {"done", "panicked"})

C20_Witness ==
    /\ pc = "prompt"
    /\ lastInput = "Interrupted"
    /\ inferior \in Live
    /\ breakpoints # << >>

====
